---- MODULE Spec2Model ----
(***************************************************************************)
(* A model of the snippets of the PythonFundamentals notebooks.  Each      *)
(* notebook is a small program over interpreter objects; the objects live  *)
(* in a heap indexed by identity, and every statement of a notebook is an  *)
(* action over that heap.  One specification per notebook:                 *)
(*   SpecCBA   CallByAssignment.ipynb  (func1, func2)                      *)
(*   SpecDict  Dictionary Keys         (HashableList, UserDefinedClass)    *)
(*   SpecDC    Dataclasses             (DcPerson, Person, ...)             *)
(*   SpecDesc  Descriptors.ipynb       (MyDescriptor, ValidationDescriptor)*)
(***************************************************************************)
EXTENDS Integers, Sequences, FiniteSets, TLC

VARIABLES
    cba_heap,      \* CallByAssignment: the live objects by identity, [kind, items]
    cba_v,         \* the object the calling code's variable is bound to (0: unbound)
    cba_hist1,     \* the x of every func1 call made without y, in order
    cba_touched,   \* TRUE once the caller itself changed func1's default list
    cba_last,      \* the statement that produced the current state
    dk_heap,       \* Dictionary Keys: the live objects by identity
    dk_key,        \* the object the notebook's key variable is bound to (0: unbound)
    dk_d,          \* the dictionary variable: [bound, entries]
    dk_last,       \* the statement that produced the current state
    dc_pc,         \* Dataclasses: how many class statements have been executed
    dc_bound,      \* class name -> the class statement it is bound to (0: unbound)
    dc_heap,       \* the live instances and lists by identity
    dc_p,          \* the objects the notebook's two instance variables are
    dc_q,          \*   bound to (0: unbound)
    dc_last,       \* the statement that produced the current state
    ds_pc,         \* Descriptors: how many of the two class cells have been executed
    ds_obj,        \* the instances the two variables of the notebook are bound to
    ds_last        \* the statement that produced the current state

cba_vars == <<cba_heap, cba_v, cba_hist1, cba_touched, cba_last>>

dk_vars == <<dk_heap, dk_key, dk_d, dk_last>>

dc_vars == <<dc_pc, dc_bound, dc_heap, dc_p, dc_q, dc_last>>

\* What the statements of one notebook leave alone: the other notebooks.
ds_vars == <<ds_pc, ds_obj, ds_last>>

cba_others == <<dk_vars, dc_vars, ds_vars>>
dk_others == <<cba_vars, dc_vars, ds_vars>>
dc_others == <<cba_vars, dk_vars, ds_vars>>
ds_others == <<cba_vars, dk_vars, dc_vars>>

vars == <<cba_heap, cba_v, cba_hist1, cba_touched, cba_last,
          dk_heap, dk_key, dk_d, dk_last,
          dc_pc, dc_bound, dc_heap, dc_p, dc_q, dc_last,
          ds_pc, ds_obj, ds_last>>

(***************************************************************************)
(* Bounds of the model.                                                    *)
(***************************************************************************)
MaxLen == 3        \* longest list or tuple
MaxItems == 2      \* longest list used as a dictionary key
MaxAppends == 2    \* longest list held in a dataclass field

Elems == {1, 2}    \* the int values passed as x

(***************************************************************************)
(* CallByAssignment.ipynb                                                  *)
(***************************************************************************)

\* The object a def statement stores as the default of y: evaluated once,
\* when the function is defined.
func1_defaults == 1
func2_defaults == 2

NoArg == 0

Obj(kind, items) == [kind |-> kind, items |-> items]

\* The identity of a newly allocated object.
NewId(h) == CHOOSE i \in 1..(Cardinality(DOMAIN h) + 1) : i \notin DOMAIN h

\* The heap once the objects nothing refers to are collected.
Collect(h, live) == [i \in (DOMAIN h) \cap live |-> h[i]]

\* A += that never works in place: y = y + seq for a list too.
IAdd_rebinds(h, y, seq) ==
    LET n == NewId(h) IN
    [heap |-> [i \in DOMAIN h \cup {n} |->
                  IF i = n THEN Obj(h[y].kind, h[y].items \o seq) ELSE h[i]],
     y |-> n]

\* y += seq.  A list implements += in place and y stays bound to the same
\* object; a tuple does not, so y = y + seq builds a new object and rebinds y.
IAdd(h, y, seq) ==
    IF h[y].kind = "list"
    THEN [heap |-> [h EXCEPT ![y].items = @ \o seq], y |-> y]
    ELSE LET n == NewId(h) IN
         [heap |-> [i \in DOMAIN h \cup {n} |->
                        IF i = n THEN Obj(h[y].kind, h[y].items \o seq) ELSE h[i]],
          y |-> n]

\* func1 as it would be with a default made anew at each call (y=None, then
\* y = [] in the body).
func1_fresh_default(h, x, y) ==
    IF y = func1_defaults
    THEN LET n == NewId(h) IN
         [heap |-> [i \in DOMAIN h \cup {n} |->
                       IF i = n THEN Obj("list", <<x>>) ELSE h[i]],
          ret |-> n]
    ELSE [heap |-> [h EXCEPT ![y].items = @ \o <<x>>], ret |-> y]

\* func1 as it would be were y rebound to a fresh list (y = y + [x]).
func1_rebinds(h, x, y) ==
    LET n == NewId(h) IN
    [heap |-> [i \in DOMAIN h \cup {n} |->
                  IF i = n THEN Obj(h[y].kind, h[y].items \o <<x>>) ELSE h[i]],
     ret |-> n]

\* func2 as it would be were the tuple extended in place.
func2_inplace(h, x, y) ==
    [heap |-> [h EXCEPT ![y].items = @ \o <<x>>], ret |-> y]

\* def func1(x, y=[]): y += [x]; return y
func1(h, x, y) ==
    LET r == IAdd(h, y, <<x>>) IN [heap |-> r.heap, ret |-> r.y]

\* def func2(x, y=()): y += (x,); return y
func2(h, x, y) ==
    LET r == IAdd(h, y, <<x>>) IN [heap |-> r.heap, ret |-> r.y]

Last(op, x, arg, ret) == [op |-> op, x |-> x, arg |-> arg, ret |-> ret]

CbaInit ==
    /\ cba_heap = [i \in {func1_defaults, func2_defaults} |->
                      IF i = func1_defaults THEN Obj("list", <<>>) ELSE Obj("tuple", <<>>)]
    /\ cba_v = 0
    /\ cba_hist1 = <<>>
    /\ cba_touched = FALSE
    /\ cba_last = Last("def", 0, NoArg, 0)

\* A statement ends: the result is either bound to v or only displayed, and what
\* neither the functions, v nor the displayed result refer to is collected.
Finish(r, keep) ==
    LET v == IF keep THEN r.ret ELSE cba_v IN
    /\ cba_v' = v
    /\ cba_heap' = Collect(r.heap, {func1_defaults, func2_defaults, v, r.ret})

VIs(kind) == cba_v # 0 /\ cba_heap[cba_v].kind = kind

\* func1(x), v = func1(x)
CallFunc1Default ==
    \E x \in Elems, keep \in BOOLEAN :
        /\ Len(cba_heap[func1_defaults].items) < MaxLen
        /\ LET r == func1(cba_heap, x, func1_defaults) IN
            /\ Finish(r, keep)
            /\ cba_last' = Last("func1", x, NoArg, r.ret)
        /\ cba_hist1' = Append(cba_hist1, x)
        /\ UNCHANGED cba_touched
        /\ UNCHANGED cba_others

\* func1(x, v), v = func1(x, v) with v a list
CallFunc1 ==
    \E x \in Elems, keep \in BOOLEAN :
        /\ VIs("list")
        /\ Len(cba_heap[cba_v].items) < MaxLen
        /\ LET r == func1(cba_heap, x, cba_v) IN
            /\ Finish(r, keep)
            /\ cba_last' = Last("func1", x, cba_v, r.ret)
        /\ cba_touched' = (cba_touched \/ cba_v = func1_defaults)
        /\ UNCHANGED cba_hist1
        /\ UNCHANGED cba_others

\* func2(x), v = func2(x)
CallFunc2Default ==
    \E x \in Elems, keep \in BOOLEAN :
        /\ LET r == func2(cba_heap, x, func2_defaults) IN
            /\ Finish(r, keep)
            /\ cba_last' = Last("func2", x, NoArg, r.ret)
        /\ UNCHANGED <<cba_hist1, cba_touched>>
        /\ UNCHANGED cba_others

\* func2(x, v), v = func2(x, v) with v a tuple
CallFunc2 ==
    \E x \in Elems, keep \in BOOLEAN :
        /\ VIs("tuple")
        /\ Len(cba_heap[cba_v].items) < MaxLen
        /\ LET r == func2(cba_heap, x, cba_v) IN
            /\ Finish(r, keep)
            /\ cba_last' = Last("func2", x, cba_v, r.ret)
        /\ UNCHANGED <<cba_hist1, cba_touched>>
        /\ UNCHANGED cba_others

\* v = [] and v = () in the calling code
NewObject ==
    \E kind \in {"list", "tuple"} :
        LET n == NewId(cba_heap)
            h == [i \in DOMAIN cba_heap \cup {n} |->
                     IF i = n THEN Obj(kind, <<>>) ELSE cba_heap[i]] IN
        /\ Finish([heap |-> h, ret |-> n], TRUE)
        /\ cba_last' = Last("new", 0, NoArg, n)
        /\ UNCHANGED <<cba_hist1, cba_touched>>
        /\ UNCHANGED cba_others

\* v.append(x) in the calling code
CallerAppend ==
    \E x \in Elems :
        /\ VIs("list")
        /\ Len(cba_heap[cba_v].items) < MaxLen
        /\ cba_heap' = Collect([cba_heap EXCEPT ![cba_v].items = Append(@, x)],
                               {func1_defaults, func2_defaults, cba_v})
        /\ cba_last' = Last("append", x, cba_v, 0)
        /\ cba_touched' = (cba_touched \/ cba_v = func1_defaults)
        /\ UNCHANGED <<cba_v, cba_hist1>>
        /\ UNCHANGED cba_others

CbaNext ==
    \/ CallFunc1Default
    \/ CallFunc1
    \/ CallFunc2Default
    \/ CallFunc2
    \/ NewObject
    \/ CallerAppend

(***************************************************************************)
(* Dictionary Keys notebook                                                *)
(***************************************************************************)

DkElems == {1, -1, -2}     \* list elements
DkAttrs == {1, 10}         \* values of UserDefinedClass.a and .b
DkVals == {1, 2}           \* values stored in a dictionary

NoHash == [tag |-> "unhashable", seq |-> <<>>]

\* An object of the notebook.  h0 is the hash the object had when it was created.
DkObj(kind, items, a, b, h0) ==
    [kind |-> kind, items |-> items, a |-> a, b |-> b, h0 |-> h0]

\* hash(int): the int itself, except that -1 is reserved and hashes as -2.
IntHash(i) == IF i = -1 THEN -2 ELSE i

\* hash(tuple): computed from the hashes of the elements, in order, and the length.
TupleHash(items) == [tag |-> "tuple", seq |-> [i \in 1..Len(items) |-> IntHash(items[i])]]

\* object.__hash__: derived from the identity of the object.
IdHash(id) == [tag |-> "id", seq |-> <<id>>]

\* HashableList without a __hash__ of its own: list's __hash__ = None is inherited.
HashableList_unhashable(o) == NoHash

\* HashableList.__hash__ returning a hash that ignores the elements.
HashableList_hash_const(o) == TupleHash(<<>>)

\* HashableList.__hash__: return hash(tuple(self))
HashableList___hash__(o) == TupleHash(o.items)

\* hash(obj) were list hashable by its elements.
Hash_list_hashable(h, id) ==
    CASE h[id].kind = "list" -> TupleHash(h[id].items)
      [] h[id].kind = "HashableList" -> HashableList___hash__(h[id])
      [] OTHER -> IdHash(id)

\* hash(obj) were UserDefinedClass to hash its attributes.
Hash_by_attrs(h, id) ==
    CASE h[id].kind = "list" -> NoHash
      [] h[id].kind = "HashableList" -> HashableList___hash__(h[id])
      [] OTHER -> TupleHash(<<h[id].a, h[id].b>>)

\* hash(obj): list sets __hash__ to None; HashableList defines it;
\* UserDefinedClass inherits object.__hash__.
Hash(h, id) ==
    CASE h[id].kind = "list" -> NoHash
      [] h[id].kind = "HashableList" -> HashableList___hash__(h[id])
      [] OTHER -> IdHash(id)

IsListKind(o) == o.kind \in {"list", "HashableList"}

\* x == y: list.__eq__ (inherited by HashableList) compares the elements;
\* UserDefinedClass inherits object.__eq__, which compares identities.
Eq(h, x, y) ==
    IF IsListKind(h[x]) /\ IsListKind(h[y])
    THEN h[x].items = h[y].items
    ELSE x = y

\* A lookup that compares the keys only, never the stored hash.
Matches_ignores_hash(h, entries, k) ==
    {i \in 1..Len(entries) : entries[i].key = k \/ Eq(h, entries[i].key, k)}

\* The entries of a dictionary a lookup with key k matches: the hash stored at
\* insertion equals hash(k), and the stored key is k or equals k.
Matches(h, entries, k) ==
    {i \in 1..Len(entries) :
        /\ entries[i].hash = Hash(h, k)
        /\ (entries[i].key = k \/ Eq(h, entries[i].key, k))}

\* d[k]
GetItemResult(h, entries, k) ==
    IF Hash(h, k) = NoHash THEN [outcome |-> "TypeError", value |-> 0]
    ELSE IF Matches(h, entries, k) = {} THEN [outcome |-> "KeyError", value |-> 0]
    ELSE [outcome |-> "ok",
          value |-> entries[CHOOSE i \in Matches(h, entries, k) : TRUE].value]

\* An entry as the dictionary keeps it: the key's hash when it was inserted, the
\* key and the value.  dirty records that the key object was changed afterwards,
\* snap what the key object was when it was inserted.
Entry(h, k, v) ==
    [hash |-> Hash(h, k), key |-> k, value |-> v, dirty |-> FALSE, snap |-> h[k]]

DkLast(op, outcome, value) ==
    [op |-> op, outcome |-> outcome, value |-> value, probe |-> <<>>]

NoDict == [bound |-> FALSE, entries |-> <<>>]

DkInit ==
    /\ dk_heap = <<>>
    /\ dk_key = 0
    /\ dk_d = NoDict
    /\ dk_last = DkLast("start", "ok", 0)

DkKeysOf(d) == {d.entries[i].key : i \in 1..Len(d.entries)}

\* The heap, with what neither the key variable nor the dictionary refers to collected.
DkCollect(h, key, d) == [i \in (DOMAIN h) \cap ({key} \cup DkKeysOf(d)) |-> h[i]]

\* The key variable is bound to a new object.
DkBindNew(o) ==
    LET n == NewId(dk_heap)
        h == [i \in DOMAIN dk_heap \cup {n} |-> IF i = n THEN o ELSE dk_heap[i]]
        h1 == [h EXCEPT ![n].h0 = Hash(h, n)] IN
    /\ dk_key' = n
    /\ dk_heap' = DkCollect(h1, n, dk_d)
    /\ UNCHANGED dk_d

\* listA = []; the elements are appended one by one
NewPlainList ==
    /\ DkBindNew(DkObj("list", <<>>, 0, 0, NoHash))
    /\ dk_last' = DkLast("new", "ok", 0)
    /\ UNCHANGED dk_others

\* listB = HashableList([]); the elements are appended one by one
NewHashableList ==
    /\ DkBindNew(DkObj("HashableList", <<>>, 0, 0, NoHash))
    /\ dk_last' = DkLast("new", "ok", 0)
    /\ UNCHANGED dk_others

\* class_inst = UserDefinedClass(1, 2)
NewUserDefinedClass ==
    \E a \in DkAttrs, b \in DkAttrs :
        /\ DkBindNew(DkObj("UserDefinedClass", <<>>, a, b, NoHash))
        /\ dk_last' = DkLast("new", "ok", 0)
        /\ UNCHANGED dk_others

\* dictB = {listB: 1}: the key is hashed; an unhashable key raises TypeError and
\* the assignment does not take place.
MakeDict ==
    \E v \in DkVals :
        /\ dk_key # 0
        /\ IF Hash(dk_heap, dk_key) = NoHash
           THEN /\ dk_last' = DkLast("mkdict", "TypeError", 0)
                /\ UNCHANGED <<dk_heap, dk_key, dk_d>>
           ELSE LET d == [bound |-> TRUE, entries |-> <<Entry(dk_heap, dk_key, v)>>] IN
                /\ dk_d' = d
                /\ dk_heap' = DkCollect(dk_heap, dk_key, d)
                /\ dk_last' = DkLast("mkdict", "ok", 0)
                /\ UNCHANGED dk_key
        /\ UNCHANGED dk_others

\* The entries, with those whose key is object k marked as changed after insertion.
MarkDirty(d, k) ==
    [d EXCEPT !.entries = [i \in 1..Len(d.entries) |->
        IF d.entries[i].key = k THEN [d.entries[i] EXCEPT !.dirty = TRUE]
        ELSE d.entries[i]]]

\* listB.append(4)
ListAppend ==
    \E x \in DkElems :
        /\ dk_key # 0
        /\ IsListKind(dk_heap[dk_key])
        /\ Len(dk_heap[dk_key].items) < MaxItems
        /\ dk_heap' = [dk_heap EXCEPT ![dk_key].items = Append(@, x)]
        /\ dk_d' = MarkDirty(dk_d, dk_key)
        /\ dk_last' = DkLast("append", "ok", 0)
        /\ UNCHANGED dk_key
        /\ UNCHANGED dk_others

\* A pop that takes the first element (pop(0)).
list_pop_first(items) == Tail(items)

\* list.pop(): the list without its last element
list_pop(items) == SubSeq(items, 1, Len(items) - 1)

\* listB.pop(), which undoes listB.append(4): the caller takes back what it
\* appended to a list since the list became a key.
ListPop ==
    /\ dk_key # 0
    /\ IsListKind(dk_heap[dk_key])
    /\ \E i \in 1..Len(dk_d.entries) :
          /\ dk_d.entries[i].key = dk_key
          /\ Len(dk_heap[dk_key].items) > Len(dk_d.entries[i].snap.items)
    /\ dk_heap' = [dk_heap EXCEPT ![dk_key].items = list_pop(@)]
    /\ dk_d' = MarkDirty(dk_d, dk_key)
    /\ dk_last' = DkLast("pop", "ok", 0)
    /\ UNCHANGED dk_key
    /\ UNCHANGED dk_others

\* class_inst.a = 10
SetAttr ==
    \E name \in {"a", "b"}, val \in DkAttrs :
        /\ dk_key # 0
        /\ dk_heap[dk_key].kind = "UserDefinedClass"
        /\ dk_heap' = [dk_heap EXCEPT ![dk_key] =
                          IF name = "a" THEN [@ EXCEPT !.a = val] ELSE [@ EXCEPT !.b = val]]
        /\ dk_d' = MarkDirty(dk_d, dk_key)
        /\ dk_last' = DkLast("setattr", "ok", 0)
        /\ UNCHANGED dk_key
        /\ UNCHANGED dk_others

\* dictB[listB]
GetItem ==
    /\ dk_key # 0
    /\ dk_d.bound
    /\ LET r == GetItemResult(dk_heap, dk_d.entries, dk_key) IN
        dk_last' = DkLast("getitem", r.outcome, r.value)
    /\ UNCHANGED <<dk_heap, dk_key, dk_d>>
    /\ UNCHANGED dk_others

\* The heap with a new HashableList of the given elements in it.
WithFresh(h, items) ==
    [i \in DOMAIN h \cup {NewId(h)} |->
        IF i \in DOMAIN h THEN h[i] ELSE DkObj("HashableList", items, 0, 0, NoHash)]

\* The contents a list key of the dictionary had when it was inserted, and the
\* contents it has now.
KeyContents(h, d) ==
    UNION {{d.entries[i].snap.items, h[d.entries[i].key].items} :
              i \in {j \in 1..Len(d.entries) : IsListKind(h[d.entries[j].key])}}

\* dictB[HashableList([1, 2, 3])]: a lookup with a new object, gone once the
\* statement ends
GetItemFresh ==
    /\ dk_d.bound
    /\ \E items \in KeyContents(dk_heap, dk_d) :
       \E r \in {GetItemResult(WithFresh(dk_heap, items), dk_d.entries, NewId(dk_heap))} :
          dk_last' = [DkLast("getitem_fresh", r.outcome, r.value) EXCEPT !.probe = items]
    /\ UNCHANGED <<dk_heap, dk_key, dk_d>>
    /\ UNCHANGED dk_others

DkNext ==
    \/ NewPlainList
    \/ NewHashableList
    \/ NewUserDefinedClass
    \/ MakeDict
    \/ ListAppend
    \/ ListPop
    \/ SetAttr
    \/ GetItem
    \/ GetItemFresh

(***************************************************************************)
(* Dataclasses notebook                                                    *)
(***************************************************************************)

\* The values the notebook passes for a field; it passes no list.
Dom(fname) ==
    CASE fname \in {"name", "first_name"} -> {"Eve", "Dave"}
      [] fname = "last_name" -> {"Gujral"}
      [] fname = "age" -> {40, 45}
      [] fname = "email" -> {"dummy@abc.com"}
      [] fname = "married" -> {TRUE}
      [] fname = "is_adult" -> {FALSE}
      [] fname = "employer" -> {"ABC Corp"}
      [] fname \in {"friends", "list_values"} -> {}

\* A field of a class statement.  only is the set of values tried for it where
\* that is not the set of its name.  default is "MISSING" (no default), "value"
\* (an immutable default), "list_literal" (= []) or "factory"
\* (field(default_factory=list)).
Fld(name, type, default) ==
    [name |-> name, type |-> type, default |-> default,
     init |-> TRUE, compare |-> TRUE, repr |-> TRUE, only |-> {}]

\* A class statement: the decorator's parameters, the base class ("" for none),
\* the fields declared in the body and whether the body defines __post_init__.
Cls(name, dataclass, fields) ==
    [name |-> name, dataclass |-> dataclass, eq |-> TRUE, order |-> FALSE,
     frozen |-> FALSE, base |-> "", post_init |-> FALSE, fields |-> fields]

\* The class statements of the notebook, in the order they are executed.
ClassStmts ==
    << \* @dataclass class DcPerson: first_name, last_name, age
       Cls("DcPerson", TRUE,
           <<Fld("first_name", "str", "MISSING"), Fld("last_name", "str", "MISSING"),
             Fld("age", "int", "MISSING")>>),
       \* @dataclass class DcPerson: ..., married: bool = False, friends: list[str] = []
       Cls("DcPerson", TRUE,
           <<Fld("first_name", "str", "MISSING"), Fld("last_name", "str", "MISSING"),
             Fld("age", "int", "MISSING"), Fld("married", "bool", "value"),
             Fld("friends", "list", "list_literal")>>),
       \* class DefaultPerson: def __init__(self, name, age, email='')
       Cls("DefaultPerson", FALSE,
           <<Fld("name", "str", "MISSING"), Fld("age", "int", "MISSING"),
             Fld("email", "str", "value")>>),
       \* @dataclass class PersonMutableDefault: ..., list_values: list = []
       Cls("PersonMutableDefault", TRUE,
           <<Fld("name", "str", "MISSING"),
             [Fld("age", "int", "MISSING") EXCEPT !.repr = FALSE],
             Fld("email", "str", "value"), Fld("list_values", "list", "list_literal")>>),
       \* @dataclass class PersonDefaultFactory: ..., list_values = field(default_factory=list)
       Cls("PersonDefaultFactory", TRUE,
           <<Fld("name", "str", "MISSING"),
             [Fld("age", "int", "MISSING") EXCEPT !.repr = FALSE],
             Fld("email", "str", "value"), Fld("list_values", "list", "factory")>>),
       \* @dataclass(order=True) class PersonOrder: name: str, age: int
       [Cls("PersonOrder", TRUE,
            <<Fld("name", "str", "MISSING"), Fld("age", "int", "MISSING")>>)
           EXCEPT !.order = TRUE],
       \* @dataclass(order=True) class PersonOrderAge: name: str = field(compare=False), age: int
       [Cls("PersonOrderAge", TRUE,
            <<[Fld("name", "str", "MISSING") EXCEPT !.compare = FALSE],
              Fld("age", "int", "MISSING")>>)
           EXCEPT !.order = TRUE],
       \* @dataclass(frozen=True) class PersonFrozen: name: str, age: int
       [Cls("PersonFrozen", TRUE,
            <<Fld("name", "str", "MISSING"), Fld("age", "int", "MISSING")>>)
           EXCEPT !.frozen = TRUE],
       \* @dataclass class Person: name: str, age: int, email: str = field(default='')
       Cls("Person", TRUE,
           <<Fld("name", "str", "MISSING"), Fld("age", "int", "MISSING"),
             Fld("email", "str", "value")>>),
       \* @dataclass class PersonPostInit: ..., is_adult: bool = field(init=False)
       \*     def __post_init__(self): ...
       [Cls("PersonPostInit", TRUE,
            <<[Fld("name", "str", "MISSING") EXCEPT !.only = {"Eve"}],
              \* ages on both sides of the two tests of __post_init__
              [Fld("age", "int", "MISSING") EXCEPT !.only = {-1, 17, 25}],
              Fld("email", "str", "value"),
              [Fld("is_adult", "bool", "MISSING") EXCEPT !.init = FALSE]>>)
           EXCEPT !.post_init = TRUE],
       \* @dataclass class PersonParent: name: str, age: int
       Cls("PersonParent", TRUE,
           <<Fld("name", "str", "MISSING"), Fld("age", "int", "MISSING")>>),
       \* @dataclass class Employee(PersonParent): employer: str
       [Cls("Employee", TRUE, <<Fld("employer", "str", "MISSING")>>)
           EXCEPT !.base = "PersonParent"] >>

\* The elements of a sequence.
Range(seq) == {seq[i] : i \in 1..Len(seq)}

ClassNames == {c.name : c \in Range(ClassStmts)}

\* The field names of a sequence of fields.
Names(fields) == {fields[i].name : i \in 1..Len(fields)}

\* The fields of a derived dataclass with the fields of the base put last.
MergeFields_own_first(inherited, own) == own \o inherited

\* dataclasses._process_class: the fields of the base classes come first, in
\* their order, then the fields of the class body; a field of the body that
\* has the name of an inherited one takes its place.
MergeFields(inherited, own) ==
    LET Own(n) == own[CHOOSE j \in 1..Len(own) : own[j].name = n] IN
    [i \in 1..Len(inherited) |->
        IF inherited[i].name \in Names(own) THEN Own(inherited[i].name)
        ELSE inherited[i]]
    \o SelectSeq(own, LAMBDA f : f.name \notin Names(inherited))

\* The class statement a base class name refers to when statement i is
\* executed: the last one before it to have bound the name.
BaseIndex(stmts, i) ==
    CHOOSE j \in 1..(i - 1) :
        /\ stmts[j].name = stmts[i].base
        /\ \A k \in (j + 1)..(i - 1) : stmts[k].name # stmts[i].base

\* The classes a sequence of statements creates: each with all its fields.
Made(stmts) ==
    LET M[i \in 1..Len(stmts)] ==
            IF stmts[i].base = "" THEN stmts[i]
            ELSE [stmts[i] EXCEPT !.fields = MergeFields(M[BaseIndex(stmts, i)].fields, @)]
    IN M

\* The classes of the notebook.
Classes == Made(ClassStmts)

\* The default value of a field declared with an immutable default.
DefaultValue(fname) ==
    CASE fname = "email" -> ""
      [] fname = "married" -> FALSE

Unset(type) ==
    CASE type = "str" -> ""
      [] type = "int" -> 0
      [] type = "bool" -> FALSE
      [] type = "list" -> 0

\* dataclasses._get_field: a default that is a list (dict, set) is refused.
HasMutableDefault(c) ==
    \E i \in 1..Len(c.fields) : c.fields[i].default = "list_literal"

\* The decorator with the check of mutable defaults left out.
ProcessClass_accepts_all(c) == "ok"

\* What executing the class statement does: a plain class is just created; the
\* @dataclass decorator raises ValueError for a mutable default, and then the
\* name is not bound.
ProcessClass(c) ==
    IF c.dataclass /\ HasMutableDefault(c) THEN "ValueError" ELSE "ok"

DcObj(cls, attrs, items, args, dflt) ==
    [cls |-> cls, attrs |-> attrs, items |-> items, args |-> args, dflt |-> dflt,
     own |-> <<>>]

DcList(items) == DcObj(0, <<>>, items, <<>>, {})

DcPut(h, id, o) == [i \in DOMAIN h \cup {id} |-> IF i = id THEN o ELSE h[i]]

\* The values tried for a field.
Vals(f) == IF f.only = {} THEN Dom(f.name) ELSE f.only

\* The ways a constructor call can fill one field: a value passed for it (by
\* keyword when the field is declared with init=False), or nothing when the
\* field has a default or is no parameter.  The notebook passes no list.
Choice(f) ==
    (IF f.type # "list"
     THEN {[given |-> TRUE, val |-> v] : v \in Vals(f)}
     ELSE {})
    \cup (IF f.default # "MISSING" \/ ~f.init
          THEN {[given |-> FALSE, val |-> Unset(f.type)]}
          ELSE {})

\* The constructor calls of a class: one choice per field.
RECURSIVE Calls(_)
Calls(fields) ==
    IF fields = <<>> THEN {<<>>}
    ELSE {<<c>> \o r : c \in Choice(Head(fields)), r \in Calls(Tail(fields))}

\* The constructor calls of each class.
CallsOf == [i \in DOMAIN Classes |-> Calls(Classes[i].fields)]

\* Where the instance a variable is bound to lives, and where the list its
\* constructor creates lives: an object replaces the one the variable held.
Addr(var) == IF var = "p" THEN 1 ELSE 2
ListAddr(id) == id + 2

\* A default_factory that is called once only, all instances of the class
\* sharing its result.
FactoryList_shared(h, cls, id) ==
    LET l == 10 + cls IN
    [heap |-> IF l \in DOMAIN h THEN h ELSE DcPut(h, l, DcList(<<>>)), ref |-> l]

\* field(default_factory=list): __init__ calls list() for the instance it builds.
FactoryList(h, cls, id) ==
    [heap |-> DcPut(h, ListAddr(id), DcList(<<>>)), ref |-> ListAddr(id)]

\* The field values by value: a list field as the elements of its list.
ByValue(h, c, attrs) ==
    [i \in 1..Len(c.fields) |->
        IF c.fields[i].type = "list" THEN h[attrs[c.fields[i].name]].items
        ELSE attrs[c.fields[i].name]]

\* The parameters of the generated __init__, were init=False ignored.
InitParams_all(c) == Names(c.fields)

\* The parameters of the generated __init__: the fields not declared init=False.
InitParams(c) == {c.fields[i].name : i \in {j \in 1..Len(c.fields) : c.fields[j].init}}

\* __post_init__ without the test of the age.
PersonPostInit___post_init___unchecked(attrs) ==
    [outcome |-> "ok", attrs |-> [attrs EXCEPT !.is_adult = attrs.age >= 18]]

\* PersonPostInit.__post_init__
PersonPostInit___post_init__(attrs) ==
    IF attrs.age < 0 THEN [outcome |-> "ValueError", attrs |-> attrs]
    ELSE [outcome |-> "ok", attrs |-> [attrs EXCEPT !.is_adult = attrs.age >= 18]]

\* The call of class number cls, which is c: an argument for a name that is no
\* parameter raises TypeError; then __init__ assigns every field its argument
\* or its default and calls __post_init__, whose exception leaves the caller
\* without an instance.
Call(c, h, cls, call, id) ==
    LET unexpected == \E i \in 1..Len(c.fields) :
                          call[i].given /\ c.fields[i].name \notin InitParams(c)
        needs == \E i \in 1..Len(c.fields) :
                     c.fields[i].default = "factory" /\ ~call[i].given
        fl == IF needs THEN FactoryList(h, cls, id) ELSE [heap |-> h, ref |-> 0]
        set == [n \in Names(c.fields) |->
                    LET i == CHOOSE j \in 1..Len(c.fields) : c.fields[j].name = n IN
                    IF call[i].given THEN call[i].val
                    ELSE IF c.fields[i].default = "factory" THEN fl.ref
                    ELSE IF c.fields[i].default = "MISSING" THEN Unset(c.fields[i].type)
                    ELSE DefaultValue(n)]
        post == IF c.post_init THEN PersonPostInit___post_init__(set)
                ELSE [outcome |-> "ok", attrs |-> set]
        o == DcObj(cls, post.attrs, <<>>, ByValue(fl.heap, c, post.attrs),
                   {c.fields[i].name : i \in {j \in 1..Len(c.fields) : ~call[j].given}})
    IN IF unexpected THEN [outcome |-> "TypeError", heap |-> h, ref |-> 0]
       ELSE IF post.outcome # "ok" THEN [outcome |-> post.outcome, heap |-> h, ref |-> 0]
       ELSE [outcome |-> "ok", heap |-> DcPut(fl.heap, id, o), ref |-> id]

\* C(...)
Construct(h, cls, call, id) == Call(Classes[cls], h, cls, call, id)

\* The name of the list field of a class, "" when it has none.
ListField(c) ==
    IF \E i \in 1..Len(c.fields) : c.fields[i].type = "list"
    THEN c.fields[CHOOSE i \in 1..Len(c.fields) : c.fields[i].type = "list"].name
    ELSE ""

\* The list field of each class.
ListFieldOf == [i \in DOMAIN Classes |-> ListField(Classes[i])]

\* The objects an instance refers to.
DcRefs(h, id) ==
    IF id = 0 THEN {}
    ELSE {id} \cup (IF ListFieldOf[h[id].cls] = "" THEN {}
                    ELSE {h[id].attrs[ListFieldOf[h[id].cls]]})

DcCollect(h, p, q) == [i \in (DOMAIN h) \cap (DcRefs(h, p) \cup DcRefs(h, q)) |-> h[i]]

\* The fields compared, were compare=False ignored.
CompareFields_all(c) == 1..Len(c.fields)

\* The fields the generated comparison methods use: those not declared
\* compare=False, by their position.
CompareFields(c) == {i \in 1..Len(c.fields) : c.fields[i].compare}

\* a == b for the generated __eq__: instances of the same class are equal when the
\* tuples of their compared fields are; anything else falls back to identity.
DataclassEq(c, h, a, b) ==
    IF h[a].cls = h[b].cls
    THEN \A i \in CompareFields(c) :
            ByValue(h, c, h[a].attrs)[i] = ByValue(h, c, h[b].attrs)[i]
    ELSE a = b

\* a == b were the generated __eq__ missing: object.__eq__ compares identities.
InstEq_identity(h, a, b) == a = b

\* a == b for a an instance of class c
ClassEq(c, h, a, b) ==
    IF c.dataclass /\ c.eq THEN DataclassEq(c, h, a, b) ELSE a = b

\* a == b
InstEq(h, a, b) == ClassEq(Classes[h[a].cls], h, a, b)

\* The place of a string among the strings of the notebook, in the order of
\* str.__lt__ (by code points).
StrRank(s) ==
    CASE s = "" -> 0
      [] s = "ABC Corp" -> 1
      [] s = "Dave" -> 2
      [] s = "Eve" -> 3
      [] s = "Gujral" -> 4
      [] s = "dummy@abc.com" -> 5

\* x < y for two values of a field of the given type.
ValueLt(type, x, y) ==
    CASE type = "int" -> x < y
      [] type = "str" -> StrRank(x) < StrRank(y)
      [] type = "bool" -> ~x /\ y

\* A comparison of two tuples that looks at the last differing position.
TupleLt_last_first(types, fs, x, y) ==
    \E i \in fs :
        /\ \A j \in fs : j > i => x[j] = y[j]
        /\ ValueLt(types[i], x[i], y[i])

\* x < y for the tuples made of the positions fs of x and y: decided by the
\* first position where they differ.
TupleLt(types, fs, x, y) ==
    \E i \in fs :
        /\ \A j \in fs : j < i => x[j] = y[j]
        /\ ValueLt(types[i], x[i], y[i])

\* a < b and a > b: the methods order=True generates compare the tuples of the
\* compared fields of two instances of the same class; without them, or for
\* another class, both operands return NotImplemented and the operator raises.
ClassOrder(c, h, op, a, b) ==
    LET types == [i \in 1..Len(c.fields) |-> c.fields[i].type]
        x == ByValue(h, c, h[a].attrs)
        y == ByValue(h, c, h[b].attrs) IN
    IF c.dataclass /\ c.order /\ h[a].cls = h[b].cls
    THEN [outcome |-> "ok",
          result |-> IF op = "lt" THEN TupleLt(types, CompareFields(c), x, y)
                     ELSE TupleLt(types, CompareFields(c), y, x)]
    ELSE [outcome |-> "TypeError", result |-> FALSE]

\* a < b, a > b
InstOrder(h, op, a, b) == ClassOrder(Classes[h[a].cls], h, op, a, b)

\* An assignment to a field of a frozen instance that goes through.
Frozen___setattr___allows(c, name) == "ok"

\* instance.name = value: the __setattr__ that frozen=True generates raises
\* FrozenInstanceError ("cannot assign to field"); otherwise the attribute is set.
Frozen___setattr__(c, name) ==
    IF c.dataclass /\ c.frozen THEN "FrozenInstanceError" ELSE "ok"

\* A replace that changes the object it is given and returns it.
Replace_in_place(h, src, name, v, id) ==
    [outcome |-> "ok", heap |-> [h EXCEPT ![src].attrs[name] = v], ref |-> src]

\* dataclasses.replace(obj, name=v): TypeError for an object that is no
\* dataclass instance, ValueError for a field declared init=False; otherwise
\* the class is called with v for the field and the current values of obj for
\* the other parameters.
ClassReplace(c, h, src, name, v, id) ==
    LET i == CHOOSE j \in 1..Len(c.fields) : c.fields[j].name = name
        call == [j \in 1..Len(c.fields) |->
                    IF ~c.fields[j].init THEN [given |-> FALSE, val |-> Unset(c.fields[j].type)]
                    ELSE IF j = i THEN [given |-> TRUE, val |-> v]
                    ELSE [given |-> TRUE, val |-> h[src].attrs[c.fields[j].name]]] IN
    IF ~c.dataclass THEN [outcome |-> "TypeError", heap |-> h, ref |-> 0]
    ELSE IF ~c.fields[i].init THEN [outcome |-> "ValueError", heap |-> h, ref |-> 0]
    ELSE Call(c, h, h[src].cls, call, id)

\* replace(obj, name=v)
Replace(h, src, name, v, id) == ClassReplace(Classes[h[src].cls], h, src, name, v, id)

\* What the last statement was and did; cls is the class of the instance it was
\* about, call what was passed to the constructor or to replace.
DcLast(op, outcome, result) ==
    [op |-> op, outcome |-> outcome, result |-> result, cls |-> 0, call |-> <<>>]

DcInit ==
    /\ dc_pc = 0
    /\ dc_bound = [n \in ClassNames |-> 0]
    /\ dc_heap = <<>>
    /\ dc_p = 0
    /\ dc_q = 0
    /\ dc_last = DcLast("start", "ok", FALSE)

\* The next class statement of the notebook is executed.  It opens a new cell:
\* p and q, the two variables of a cell, start unbound, and the instances of
\* the cells before are not used again.
DefineClass ==
    /\ dc_pc < Len(ClassStmts)
    /\ dc_pc' = dc_pc + 1
    /\ LET c == ClassStmts[dc_pc + 1] IN
        /\ dc_last' = DcLast("class", ProcessClass(c), FALSE)
        /\ dc_bound' = IF ProcessClass(c) = "ok"
                       THEN [dc_bound EXCEPT ![c.name] = dc_pc + 1]
                       ELSE dc_bound
    /\ dc_heap' = <<>>
    /\ dc_p' = 0
    /\ dc_q' = 0
    /\ UNCHANGED dc_others

\* The class statement executed last among those that bound their name: the
\* class a cell makes its instances of.
Current ==
    IF \A n \in ClassNames : dc_bound[n] = 0 THEN 0
    ELSE CHOOSE i \in {dc_bound[n] : n \in ClassNames} :
             \A n \in ClassNames : dc_bound[n] <= i

\* The instance the other variable holds.
Other(var) == IF var = "p" THEN dc_q ELSE dc_p

\* person5 = DefaultPerson('Eve', 45, 'dummy@abc.com'), with either variable:
\* the new instance takes the place of the one the variable held; a call that
\* raises leaves the variable as it was.
NewInstance ==
    \E n \in ClassNames, var \in {"p", "q"} :
        /\ dc_bound[n] # 0
        /\ dc_bound[n] = Current
        /\ \E call \in CallsOf[dc_bound[n]] :
           \E r \in {Construct(DcCollect(dc_heap, Other(var), 0),
                                dc_bound[n], call, Addr(var))} :
            /\ dc_last' = [DcLast("new", r.outcome, FALSE)
                               EXCEPT !.cls = dc_bound[n], !.call = call]
            /\ IF r.outcome = "ok"
               THEN /\ dc_p' = IF var = "p" THEN r.ref ELSE dc_p
                    /\ dc_q' = IF var = "q" THEN r.ref ELSE dc_q
                    /\ dc_heap' = r.heap
               ELSE UNCHANGED <<dc_heap, dc_p, dc_q>>
        /\ UNCHANGED <<dc_pc, dc_bound>>
        /\ UNCHANGED dc_others

\* The fields of each class, the values tried for them included.
FieldsOf == [i \in DOMAIN Classes |-> Classes[i].fields]

\* new_person = replace(person, age=30), for any field that is not a list: as
\* with the constructor calls, no list is passed on.
ReplaceInstance ==
    /\ dc_p # 0
    /\ ListFieldOf[dc_heap[dc_p].cls] = ""
    /\ \E f \in Range(FieldsOf[dc_heap[dc_p].cls]) :
        \E v \in Vals(f) :
        \E r \in {Replace(DcCollect(dc_heap, dc_p, 0), dc_p, f.name, v, Addr("q"))} :
            /\ dc_last' = [DcLast("replace", r.outcome, FALSE)
                               EXCEPT !.cls = dc_heap[dc_p].cls, !.call = <<f.name, v>>]
            /\ IF r.outcome = "ok"
               THEN /\ dc_q' = r.ref
                    /\ dc_heap' = DcCollect(r.heap, dc_p, r.ref)
               ELSE UNCHANGED <<dc_heap, dc_q>>
    /\ UNCHANGED <<dc_pc, dc_bound, dc_p>>
    /\ UNCHANGED dc_others

\* An assignment after which __post_init__ runs again, as at construction.
SetAttribute_revalidates(c, h, id, name, v) ==
    LET out == Frozen___setattr__(c, name)
        set == [h[id].attrs EXCEPT ![name] = v]
        post == IF c.post_init THEN PersonPostInit___post_init__(set)
                ELSE [outcome |-> "ok", attrs |-> set]
    IN  IF out # "ok" THEN [outcome |-> out, heap |-> h]
        ELSE IF post.outcome # "ok" THEN [outcome |-> post.outcome, heap |-> h]
        ELSE [outcome |-> "ok", heap |-> [h EXCEPT ![id].attrs = post.attrs]]

\* instance.name = value for an instance of class c
SetAttribute(c, h, id, name, v) ==
    LET out == Frozen___setattr__(c, name) IN
    [outcome |-> out, heap |-> IF out = "ok" THEN [h EXCEPT ![id].attrs[name] = v] ELSE h]

\* person16.age = 40, for any field of an instance whose fields are plain values
SetField ==
    /\ dc_p # 0
    /\ ListFieldOf[dc_heap[dc_p].cls] = ""
    /\ \E f \in Range(FieldsOf[dc_heap[dc_p].cls]) :
        \E v \in Vals(f) :
        \E r \in {SetAttribute(Classes[dc_heap[dc_p].cls], dc_heap, dc_p, f.name, v)} :
            /\ dc_last' = [DcLast("setattr", r.outcome, FALSE)
                               EXCEPT !.cls = dc_heap[dc_p].cls, !.call = <<f.name, v>>]
            /\ dc_heap' = r.heap
    /\ UNCHANGED <<dc_pc, dc_bound, dc_p, dc_q>>
    /\ UNCHANGED dc_others

\* person10.list_values.append(1), with either variable
AppendListValue ==
    \E var \in {"p", "q"} :
        LET id == IF var = "p" THEN dc_p ELSE dc_q IN
        /\ id # 0
        /\ ListFieldOf[dc_heap[id].cls] # ""
        /\ LET l == dc_heap[id].attrs[ListFieldOf[dc_heap[id].cls]] IN
            /\ Len(dc_heap[l].items) < MaxAppends
            /\ dc_heap' = [dc_heap EXCEPT ![l].items = Append(@, 1),
                                          ![id].own = Append(@, 1)]
        /\ dc_last' = DcLast("append", "ok", FALSE)
        /\ UNCHANGED <<dc_pc, dc_bound, dc_p, dc_q>>
        /\ UNCHANGED dc_others

\* person5 == person6
Compare ==
    /\ dc_p # 0 /\ dc_q # 0
    /\ dc_last' = DcLast("eq", "ok", InstEq(dc_heap, dc_p, dc_q))
    /\ UNCHANGED <<dc_pc, dc_bound, dc_heap, dc_p, dc_q>>
    /\ UNCHANGED dc_others

\* person12 > person13, person12 < person13
Order ==
    /\ dc_p # 0 /\ dc_q # 0
    /\ \E op \in {"lt", "gt"} :
        \E r \in {InstOrder(dc_heap, op, dc_p, dc_q)} :
            dc_last' = DcLast(op, r.outcome, r.result)
    /\ UNCHANGED <<dc_pc, dc_bound, dc_heap, dc_p, dc_q>>
    /\ UNCHANGED dc_others

DcNext ==
    \/ DefineClass
    \/ NewInstance
    \/ ReplaceInstance
    \/ SetField
    \/ AppendListValue
    \/ Compare
    \/ Order

(***************************************************************************)
(* Descriptors.ipynb                                                       *)
(***************************************************************************)

\* An instance __dict__: a function from attribute names to values.
EmptyDict == [x \in {} |-> 0]

DictPut(d, k, v) == [x \in (DOMAIN d) \cup {k} |-> IF x = k THEN v ELSE d[x]]

DictDel(d, k) == [x \in (DOMAIN d) \ {k} |-> d[x]]

\* What a method call or an attribute statement gives: its outcome, the value
\* it returns, the instance __dict__ it leaves, the descriptor methods it ran.
Res(outcome, value, dict) ==
    [outcome |-> outcome, value |-> value, dict |-> dict, calls |-> <<>>]

\* MyDescriptor()
MyDescriptor == [type |-> "MyDescriptor"]

\* ValidationDescriptor(min_=.., max_=..): __init__
ValidationDescriptor(min_, max_) ==
    [type |-> "ValidationDescriptor", default_value |-> 0,
     min |-> min_, max |-> max_, name |-> ""]

\* A __set_name__ that keeps no name.
ValidationDescriptor___set_name___dropped(self, name) == self

\* ValidationDescriptor.__set_name__
ValidationDescriptor___set_name__(self, name) == [self EXCEPT !.name = name]

\* The namespace of MyClass as the class statement of a cell creates it: the
\* first cell gives it a MyDescriptor, the second two ValidationDescriptors,
\* each told its name.
MyClass(cell) ==
    IF cell = 1 THEN [descriptor_attribute |-> MyDescriptor]
    ELSE [value1 |-> ValidationDescriptor___set_name__(
                         ValidationDescriptor(0, 100), "value1"),
          value2 |-> ValidationDescriptor___set_name__(
                         ValidationDescriptor(0, 100), "value2")]

\* MyDescriptor.__get__: return instance._value
MyDescriptor___get__(d) ==
    IF "_value" \in DOMAIN d THEN Res("ok", d["_value"], d)
    ELSE Res("AttributeError", 0, d)

\* A __set__ that stores nothing.
MyDescriptor___set___dropped(d, value) == Res("ok", 0, d)

\* MyDescriptor.__set__: instance._value = value
MyDescriptor___set__(d, value) == Res("ok", 0, DictPut(d, "_value", value))

\* A __delete__ that resets _value instead of deleting it.
MyDescriptor___delete___resets(d) == Res("ok", 0, DictPut(d, "_value", 0))

\* MyDescriptor.__delete__: del instance._value
MyDescriptor___delete__(d) ==
    IF "_value" \in DOMAIN d THEN Res("ok", 0, DictDel(d, "_value"))
    ELSE Res("AttributeError", 0, d)

\* ValidationDescriptor.__get__: instance.__dict__.get(self.name, self.default_value)
ValidationDescriptor___get__(self, d) ==
    Res("ok", IF self.name \in DOMAIN d THEN d[self.name] ELSE self.default_value, d)

\* A __set__ that stores whatever it is given.
ValidationDescriptor___set___unchecked(self, d, value) ==
    Res("ok", 0, DictPut(d, self.name, value))

\* ValidationDescriptor.__set__
ValidationDescriptor___set__(self, d, value) ==
    IF ~(self.min <= value /\ value <= self.max) THEN Res("ValueError", 0, d)
    ELSE Res("ok", 0, DictPut(d, self.name, value))

\* obj.name for an instance with __dict__ d of a class with namespace ns: a
\* descriptor of the class comes first, then the instance __dict__.
object___getattribute__(ns, d, name) ==
    IF name \in DOMAIN ns
    THEN IF ns[name].type = "MyDescriptor"
         THEN [MyDescriptor___get__(d) EXCEPT !.calls = <<"MyDescriptor.__get__">>]
         ELSE [ValidationDescriptor___get__(ns[name], d)
                  EXCEPT !.calls = <<"ValidationDescriptor.__get__">>]
    ELSE IF name \in DOMAIN d THEN Res("ok", d[name], d)
    ELSE Res("AttributeError", 0, d)

\* An assignment that takes int_value1 for the value1 of the class.
object___setattr___by_suffix(ns, d, name, value) ==
    IF name = "int_value1"
    THEN [ValidationDescriptor___set__(ns["value1"], d, value)
             EXCEPT !.calls = <<"ValidationDescriptor.__set__">>]
    ELSE IF name \in DOMAIN ns
    THEN IF ns[name].type = "MyDescriptor"
         THEN [MyDescriptor___set__(d, value) EXCEPT !.calls = <<"MyDescriptor.__set__">>]
         ELSE [ValidationDescriptor___set__(ns[name], d, value)
                  EXCEPT !.calls = <<"ValidationDescriptor.__set__">>]
    ELSE Res("ok", 0, DictPut(d, name, value))

\* obj.name = value: the __set__ of a descriptor of the class, or else the
\* entry of the instance __dict__.
object___setattr__(ns, d, name, value) ==
    IF name \in DOMAIN ns
    THEN IF ns[name].type = "MyDescriptor"
         THEN [MyDescriptor___set__(d, value) EXCEPT !.calls = <<"MyDescriptor.__set__">>]
         ELSE [ValidationDescriptor___set__(ns[name], d, value)
                  EXCEPT !.calls = <<"ValidationDescriptor.__set__">>]
    ELSE Res("ok", 0, DictPut(d, name, value))

\* del obj.name: the __delete__ of a descriptor of the class (AttributeError
\* when it defines __set__ but no __delete__), or else the instance __dict__.
object___delattr__(ns, d, name) ==
    IF name \in DOMAIN ns
    THEN IF ns[name].type = "MyDescriptor"
         THEN [MyDescriptor___delete__(d) EXCEPT !.calls = <<"MyDescriptor.__delete__">>]
         ELSE Res("AttributeError", 0, d)
    ELSE IF name \in DOMAIN d THEN Res("ok", 0, DictDel(d, name))
    ELSE Res("AttributeError", 0, d)

\* MyClass.__init__ of the first cell: self._value = initial_value
MyClass1___init__(ns, initial_value) == object___setattr__(ns, EmptyDict, "_value", initial_value)

\* The second assignment of __init__, made when the first one went through.
InitSecond(ns, r1, value2) ==
    IF r1.outcome # "ok" THEN r1
    ELSE [object___setattr__(ns, r1.dict, "value2", value2) EXCEPT !.calls = r1.calls \o @]

\* MyClass.__init__ of the second cell: self.value1 = value1; self.value2 = value2
MyClass2___init__(ns, value1, value2) ==
    InitSecond(ns, object___setattr__(ns, EmptyDict, "value1", value1), value2)

\* An instance: the cell whose MyClass it is an instance of, its __dict__, and
\* for the record the value last assigned to each attribute by an assignment
\* statement that went through (an attribute deleted since has none) and
\* whether an assignment to it was ever rejected.
DsObj(cls, dict, log) == [cls |-> cls, dict |-> dict, log |-> log, rej |-> FALSE]

NoObj == DsObj(0, EmptyDict, EmptyDict)

\* The variables of the notebook, the attribute names its statements use on an
\* instance, and the values it is given: those of the notebook and both sides
\* of both ends of the range.
DsVariables == {"obj", "obj2"}

DsNames(cls) ==
    IF cls = 1 THEN {"descriptor_attribute"} ELSE {"value1", "value2", "int_value1"}

DsValues(name) ==
    CASE name = "descriptor_attribute" -> {42, 99}
      [] name = "int_value1" -> {50}
      [] name = "value1" -> {-1, 0, 40, 101}
      [] name = "value2" -> {-1, 65, 100, 101}

DsLast(op, var, attr, value, r) ==
    [op |-> op, var |-> var, attr |-> attr, value |-> value,
     outcome |-> r.outcome, calls |-> r.calls]

DsInit ==
    /\ ds_pc = 0
    /\ ds_obj = [v \in DsVariables |-> NoObj]
    /\ ds_last = DsLast("start", "", "", 0, Res("ok", 0, EmptyDict))

\* The next of the two cells that define MyClass is executed.
DefineMyClass ==
    /\ ds_pc < 2
    /\ ds_pc' = ds_pc + 1
    /\ ds_last' = DsLast("class", "", "", 0, Res("ok", 0, EmptyDict))
    /\ UNCHANGED ds_obj
    /\ UNCHANGED ds_others

\* obj = MyClass(initial_value=42)
NewMyClass1 ==
    /\ ds_pc = 1
    /\ \E var \in DsVariables, v \in DsValues("descriptor_attribute") :
       \E r \in {MyClass1___init__(MyClass(1), v)} :
        /\ ds_obj' = [ds_obj EXCEPT ![var] = DsObj(1, r.dict, DictPut(EmptyDict, "_value", v))]
        /\ ds_last' = DsLast("new", var, "", <<v>>, r)
    /\ UNCHANGED ds_pc
    /\ UNCHANGED ds_others

\* obj = MyClass(40, 65): an exception in __init__ leaves the variable as it was
NewMyClass2 ==
    /\ ds_pc = 2
    /\ \E var \in DsVariables, v1 \in DsValues("value1"), v2 \in DsValues("value2") :
       \E r \in {MyClass2___init__(MyClass(2), v1, v2)} :
        /\ ds_obj' = IF r.outcome = "ok"
                     THEN [ds_obj EXCEPT ![var] =
                              DsObj(2, r.dict, [value1 |-> v1, value2 |-> v2])]
                     ELSE ds_obj
        /\ ds_last' = DsLast("new", var, "", <<v1, v2>>, r)
    /\ UNCHANGED ds_pc
    /\ UNCHANGED ds_others

\* print(obj.descriptor_attribute), print(obj.value1)
ReadAttr ==
    /\ \E var \in DsVariables :
        /\ ds_obj[var].cls # 0
        /\ \E name \in DsNames(ds_obj[var].cls) :
           \E r \in {object___getattribute__(MyClass(ds_obj[var].cls), ds_obj[var].dict, name)} :
            ds_last' = DsLast("get", var, name, r.value, r)
    /\ UNCHANGED <<ds_pc, ds_obj>>
    /\ UNCHANGED ds_others

\* obj.descriptor_attribute = 99, obj.int_value1 = 50
AssignAttr ==
    /\ \E var \in DsVariables :
        /\ ds_obj[var].cls # 0
        /\ \E name \in DsNames(ds_obj[var].cls) :
           \E v \in DsValues(name) :
           \E r \in {object___setattr__(MyClass(ds_obj[var].cls), ds_obj[var].dict, name, v)} :
            /\ ds_obj' = [ds_obj EXCEPT
                             ![var].dict = r.dict,
                             ![var].log = IF r.outcome = "ok" THEN DictPut(@, name, v) ELSE @,
                             ![var].rej = @ \/ r.outcome # "ok"]
            /\ ds_last' = DsLast("set", var, name, v, r)
    /\ UNCHANGED ds_pc
    /\ UNCHANGED ds_others

\* del obj.descriptor_attribute
DeleteAttr ==
    /\ \E var \in DsVariables :
        /\ ds_obj[var].cls # 0
        /\ \E name \in DsNames(ds_obj[var].cls) :
           \E r \in {object___delattr__(MyClass(ds_obj[var].cls), ds_obj[var].dict, name)} :
            /\ ds_obj' = [ds_obj EXCEPT
                             ![var].dict = r.dict,
                             ![var].log = IF r.outcome = "ok" THEN DictDel(@, name) ELSE @]
            /\ ds_last' = DsLast("del", var, name, 0, r)
    /\ UNCHANGED ds_pc
    /\ UNCHANGED ds_others

DsNext ==
    \/ DefineMyClass
    \/ NewMyClass1
    \/ NewMyClass2
    \/ ReadAttr
    \/ AssignAttr
    \/ DeleteAttr

(***************************************************************************)
(* Specifications: one per notebook; the objects of the other notebooks    *)
(* stay as they are.                                                       *)
(***************************************************************************)
Init == CbaInit /\ DkInit /\ DcInit /\ DsInit

SpecCBA == Init /\ [][CbaNext]_vars

SpecDict == Init /\ [][DkNext]_vars

SpecDC == Init /\ [][DcNext]_vars

SpecDesc == Init /\ [][DsNext]_vars

(***************************************************************************)
(* Claims about CallByAssignment.ipynb                                     *)
(***************************************************************************)

\* C1: in a run of func1 calls made without y (the caller never changing the
\* default list itself), the k-th call returns the list [x1, ..., xk] of every
\* x passed so far.
C1_DefaultListAccumulates ==
    (cba_last.op = "func1" /\ cba_last.arg = NoArg /\ ~cba_touched)
        => cba_heap[cba_last.ret].items = cba_hist1

\* A second default call of func1 has returned both elements.
C1_Witness ==
    /\ cba_last.op = "func1" /\ cba_last.arg = NoArg /\ ~cba_touched
    /\ Len(cba_hist1) >= 2
    /\ cba_hist1[1] # cba_hist1[2]
    /\ cba_heap[cba_last.ret].items = cba_hist1

\* C2: every func2 call made without y returns the one-element tuple (x,),
\* whatever came before, and the default tuple stays empty.
C2_DefaultTupleIndependent ==
    /\ cba_heap[func2_defaults] = Obj("tuple", <<>>)
    /\ (cba_last.op = "func2" /\ cba_last.arg = NoArg)
           => cba_heap[cba_last.ret] = Obj("tuple", <<cba_last.x>>)

\* A default call of func2 made while v still holds the result of an earlier one.
C2_Witness ==
    /\ cba_last.op = "func2" /\ cba_last.arg = NoArg
    /\ VIs("tuple") /\ cba_v # cba_last.ret
    /\ Len(cba_heap[cba_v].items) = 1
    /\ cba_heap[cba_v].items # <<cba_last.x>>
    /\ cba_heap[cba_last.ret].items = <<cba_last.x>>

\* C23: every call of func1 made without y returns the default list itself,
\* extended by x in place: a variable that holds the result of an earlier
\* default call holds that same object and so shows the element, and whatever
\* the caller appended to a returned list is in the result of the next default
\* call, before its x.
C23_DefaultListIsShared ==
    [][/\ (cba_last'.op = "func1" /\ cba_last'.arg = NoArg) =>
            /\ cba_last'.ret = func1_defaults
            /\ cba_heap'[cba_last'.ret].items =
                   Append(cba_heap[func1_defaults].items, cba_last'.x)
            /\ cba_v = func1_defaults =>
                   cba_heap'[cba_v].items = cba_heap'[cba_last'.ret].items
       /\ (cba_last'.op = "append" /\ cba_v = func1_defaults) =>
            cba_heap'[func1_defaults].items =
               Append(cba_heap[func1_defaults].items, cba_last'.x)
      ]_vars

\* v = func1(1); v.append(2); func1(1): the third statement returns [1, 2, 1],
\* and v, bound by the first, shows it.
C23_Witness ==
    /\ cba_last.op = "func1" /\ cba_last.arg = NoArg
    /\ cba_touched
    /\ cba_v = func1_defaults
    /\ cba_hist1 = <<1, 1>>
    /\ cba_heap[cba_last.ret].items = <<1, 2, 1>>
    /\ cba_heap[cba_v].items = <<1, 2, 1>>

\* What a call with an explicit y does to the object it is given: func1 appends
\* x to the caller's list in place and returns that list; func2 leaves the
\* caller's tuple as it was and returns a new tuple t + (x,).
ExplicitCallEffect ==
    /\ (cba_last'.op = "func1" /\ cba_last'.arg # NoArg) =>
          /\ cba_last'.ret = cba_last'.arg
          /\ cba_heap'[cba_last'.arg] =
                 Obj("list", Append(cba_heap[cba_last'.arg].items, cba_last'.x))
    /\ (cba_last'.op = "func2" /\ cba_last'.arg # NoArg) =>
          /\ cba_last'.ret # cba_last'.arg
          /\ cba_heap'[cba_last'.ret] =
                 Obj("tuple", Append(cba_heap[cba_last'.arg].items, cba_last'.x))
          /\ cba_last'.arg \in DOMAIN cba_heap' =>
                 cba_heap'[cba_last'.arg] = cba_heap[cba_last'.arg]

\* C24 as stated: a call of func1 with an explicit list appends x in place to
\* the caller's list, returns that list and leaves the default list of func1
\* unchanged; a call of func2 with an explicit tuple leaves the caller's tuple
\* unchanged and returns a new tuple t + (x,).
C24_ExplicitArgumentOriginal ==
    [][/\ ExplicitCallEffect
       /\ (cba_last'.op = "func1" /\ cba_last'.arg # NoArg) =>
             cba_heap'[func1_defaults] = cba_heap[func1_defaults]
      ]_vars

\* C24, amended: as stated, except that the default list of func1 is left
\* unchanged only when the list passed is not the default list itself; passed
\* the list an earlier call without y returned, func1 appends x to the default
\* list.
C24_ExplicitArgument ==
    [][/\ ExplicitCallEffect
       /\ (cba_last'.op = "func1" /\ cba_last'.arg # NoArg) =>
             IF cba_last'.arg # func1_defaults
             THEN cba_heap'[func1_defaults] = cba_heap[func1_defaults]
             ELSE cba_heap'[func1_defaults].items =
                     Append(cba_heap[func1_defaults].items, cba_last'.x)
      ]_vars

\* func1(2, v) has been called with a list of the caller's own while the
\* default list holds an element: v is the returned list and has grown.
C24_Witness ==
    /\ cba_last.op = "func1" /\ cba_last.arg # NoArg
    /\ cba_last.arg # func1_defaults
    /\ cba_last.ret = cba_v
    /\ cba_heap[func1_defaults].items = <<1>>
    /\ cba_heap[cba_v].items = <<1, 2>>

(***************************************************************************)
(* Claims about the Dictionary Keys notebook                               *)
(***************************************************************************)

IsPrefix(q, r) == Len(q) <= Len(r) /\ SubSeq(r, 1, Len(q)) = q

KeyIs(kind) == dk_key # 0 /\ dk_heap[dk_key].kind = kind

\* The entries of the dictionary whose key is the very object the key variable holds.
OwnEntries == {i \in 1..Len(dk_d.entries) : dk_d.entries[i].key = dk_key}

\* C3: a dictionary display whose key is a plain list raises TypeError, and the
\* statement creates no dictionary: the dictionary variable stays as it was.
C3_PlainListKeyRaises ==
    [][(dk_last'.op = "mkdict" /\ KeyIs("list"))
           => (dk_last'.outcome = "TypeError" /\ dk_d' = dk_d)]_vars

\* {listA: 1} with a non-empty plain list has raised, and no dictionary exists.
C3_Witness ==
    /\ dk_last.op = "mkdict" /\ dk_last.outcome = "TypeError"
    /\ KeyIs("list") /\ Len(dk_heap[dk_key].items) > 0
    /\ ~dk_d.bound

\* C4: a HashableList is accepted as a dictionary key, and while it has not been
\* changed since it was inserted, a lookup with that same object returns the
\* value stored under it.
C4_HashableListIsKey ==
    /\ (dk_last.op = "mkdict" /\ KeyIs("HashableList"))
           => /\ dk_last.outcome = "ok"
              /\ dk_d.bound /\ OwnEntries # {}
    /\ (dk_last.op = "getitem" /\ KeyIs("HashableList"))
           => \A i \in OwnEntries :
                  ~dk_d.entries[i].dirty
                      => /\ dk_last.outcome = "ok"
                         /\ dk_last.value = dk_d.entries[i].value

\* dictB[listB] with a non-empty, unchanged listB has returned the stored value.
C4_Witness ==
    /\ dk_last.op = "getitem" /\ KeyIs("HashableList")
    /\ Len(dk_heap[dk_key].items) > 0
    /\ \E i \in OwnEntries :
           /\ ~dk_d.entries[i].dirty
           /\ dk_d.entries[i].value = 2
           /\ dk_last = DkLast("getitem", "ok", 2)

C6_HashFixedForLifetime ==
    \A id \in DOMAIN dk_heap :
        Hash(dk_heap, id) # NoHash => Hash(dk_heap, id) = dk_heap[id].h0

\* C6 as amended: the hash of a UserDefinedClass instance is the one it had when
\* it was created, whatever was assigned to its attributes; the hash of a
\* HashableList follows its elements: it is the creation-time hash while the list
\* has the (empty) contents it was created with, and another one once elements
\* were appended.
C6_HashFollowsContents ==
    \A id \in DOMAIN dk_heap :
        /\ dk_heap[id].kind = "UserDefinedClass"
               => Hash(dk_heap, id) = dk_heap[id].h0
        /\ dk_heap[id].kind = "HashableList"
               => /\ Hash(dk_heap, id) # NoHash
                  /\ (Hash(dk_heap, id) = dk_heap[id].h0) <=> (dk_heap[id].items = <<>>)

\* A HashableList that was appended to, next to the hash it was created with.
C6_Witness ==
    /\ KeyIs("HashableList")
    /\ Len(dk_heap[dk_key].items) > 0
    /\ Hash(dk_heap, dk_key) # dk_heap[dk_key].h0
    /\ dk_heap[dk_key].h0 = TupleHash(<<>>)

\* C7: an instance of UserDefinedClass stays a valid key: after any assignments
\* to its attributes, a lookup with that same instance returns the stored value.
C7_InstanceStaysKey ==
    /\ (dk_last.op = "mkdict" /\ KeyIs("UserDefinedClass"))
           => (dk_last.outcome = "ok" /\ OwnEntries # {})
    /\ (dk_last.op = "getitem" /\ KeyIs("UserDefinedClass"))
           => \A i \in OwnEntries :
                  /\ dk_last.outcome = "ok"
                  /\ dk_last.value = dk_d.entries[i].value

\* dictC[class_inst] after class_inst.a = .. changed the attribute has returned
\* the stored value.
C7_Witness ==
    /\ dk_last.op = "getitem" /\ KeyIs("UserDefinedClass")
    /\ \E i \in OwnEntries :
           /\ dk_d.entries[i].dirty
           /\ dk_d.entries[i].snap.a # dk_heap[dk_key].a
           /\ dk_last = DkLast("getitem", "ok", dk_d.entries[i].value)

\* The entries whose key is a HashableList that has grown by append since it
\* was inserted.
Grown == {i \in 1..Len(dk_d.entries) :
            /\ dk_heap[dk_d.entries[i].key].kind = "HashableList"
            /\ dk_d.entries[i].dirty
            /\ IsPrefix(dk_d.entries[i].snap.items, dk_heap[dk_d.entries[i].key].items)
            /\ Len(dk_d.entries[i].snap.items) < Len(dk_heap[dk_d.entries[i].key].items)}

\* C25: a HashableList key that has grown by append is still the key of the one
\* entry of the dictionary, and no lookup by key reaches it: a lookup with a
\* new HashableList of the contents the key had when inserted raises KeyError
\* (it has the stored hash and is not equal to the key), and so does a lookup
\* with a new HashableList of the contents the key has now (it does not have
\* the stored hash).
C25_MutatedKeyUnreachable ==
    \A i \in Grown :
        LET e == dk_d.entries[i] IN
        /\ Len(dk_d.entries) = 1
        /\ e.key \in DOMAIN dk_heap
        /\ dk_last.op = "getitem_fresh" =>
              /\ dk_last.outcome = "KeyError"
              /\ dk_last.probe = e.snap.items =>
                    /\ e.hash = TupleHash(dk_last.probe)
                    /\ dk_heap[e.key].items # dk_last.probe
              /\ dk_last.probe = dk_heap[e.key].items =>
                    e.hash # TupleHash(dk_last.probe)

\* listB = HashableList([1]) became a key and then [1, -1]; the lookup with a
\* new HashableList([1, -1]) has raised KeyError.
C25_Witness ==
    /\ dk_last.op = "getitem_fresh"
    /\ dk_last.outcome = "KeyError"
    /\ dk_last.probe = <<1, -1>>
    /\ Grown # {}
    /\ dk_d.entries[1].snap.items = <<1>>
    /\ dk_heap[dk_d.entries[1].key].items = <<1, -1>>

\* C26: a HashableList key that was changed and then brought back to exactly
\* the contents it had when it was inserted is found again: once pop() has
\* taken back the element append added to the key, the key has those contents
\* and a lookup with that object gives the stored value; and every lookup made
\* with a key that was changed and has those contents again returns it.
C26_RestoredKeyFound ==
    [][/\ (dk_last'.op = "pop" /\ KeyIs("HashableList")) =>
            \A i \in OwnEntries :
                (/\ IsPrefix(dk_d.entries[i].snap.items, dk_heap[dk_key].items)
                 /\ Len(dk_heap[dk_key].items) = Len(dk_d.entries[i].snap.items) + 1)
                    => /\ dk_heap'[dk_key].items = dk_d.entries[i].snap.items
                       /\ GetItemResult(dk_heap', dk_d'.entries, dk_key) =
                              [outcome |-> "ok", value |-> dk_d.entries[i].value]
       /\ (dk_last'.op = "getitem" /\ KeyIs("HashableList")) =>
            \A i \in OwnEntries :
                (/\ dk_d.entries[i].dirty
                 /\ dk_heap[dk_key].items = dk_d.entries[i].snap.items)
                    => /\ dk_last'.outcome = "ok"
                       /\ dk_last'.value = dk_d.entries[i].value
      ]_vars

\* dictB[listB] has returned the value stored under listB, which was changed
\* after it became a key and holds its one element again.
C26_Witness ==
    /\ dk_last.op = "getitem" /\ KeyIs("HashableList")
    /\ dk_last.outcome = "ok"
    /\ \E i \in OwnEntries :
           /\ dk_d.entries[i].dirty
           /\ dk_d.entries[i].snap.items = <<1>>
           /\ dk_heap[dk_key].items = <<1>>
           /\ dk_last.value = dk_d.entries[i].value

(***************************************************************************)
(* Claims about the Dataclasses notebook                                   *)
(***************************************************************************)

DcClassOf(id) == Classes[dc_heap[id].cls]

\* The instance is as its constructor built it.
AsBuilt(id) == ByValue(dc_heap, DcClassOf(id), dc_heap[id].attrs) = dc_heap[id].args

\* Both variables hold instances of one class, each as it was built.
PairOfOneClass ==
    /\ dc_p # 0 /\ dc_q # 0 /\ dc_p # dc_q
    /\ dc_heap[dc_p].cls = dc_heap[dc_q].cls
    /\ AsBuilt(dc_p) /\ AsBuilt(dc_q)

\* C8: two instances of a dataclass built from the same field values compare
\* equal (and, when no field is declared compare=False, from different values
\* unequal: equality is by field values); two instances of a hand-written class
\* built from the same arguments compare unequal.
C8_EqualityByFields ==
    (dc_last.op = "eq" /\ PairOfOneClass)
        => IF DcClassOf(dc_p).dataclass
           THEN /\ dc_heap[dc_p].args = dc_heap[dc_q].args => dc_last.result = TRUE
                /\ (\A i \in 1..Len(DcClassOf(dc_p).fields) :
                        DcClassOf(dc_p).fields[i].compare)
                       => dc_last.result = (dc_heap[dc_p].args = dc_heap[dc_q].args)
           ELSE dc_last.result = FALSE

\* person7 == person8 has been evaluated to True for two distinct instances of
\* a dataclass built from the same values.
C8_Witness ==
    /\ dc_last.op = "eq" /\ PairOfOneClass
    /\ DcClassOf(dc_p).dataclass
    /\ dc_heap[dc_p].args = dc_heap[dc_q].args
    /\ dc_last.result = TRUE

\* C9: a class statement that declares a dataclass field with a list literal as
\* its default raises ValueError when it is executed, and binds no class.
C9_MutableDefaultRejected ==
    [][(/\ dc_pc' = dc_pc + 1
        /\ ClassStmts[dc_pc'].dataclass
        /\ \E i \in 1..Len(ClassStmts[dc_pc'].fields) :
               ClassStmts[dc_pc'].fields[i].default = "list_literal")
           => (dc_last'.outcome = "ValueError" /\ dc_bound' = dc_bound)]_vars

\* The statement of PersonMutableDefault has raised and the name is unbound.
C9_Witness ==
    /\ dc_last = DcLast("class", "ValueError", FALSE)
    /\ ClassStmts[dc_pc].name = "PersonMutableDefault"
    /\ dc_bound["PersonMutableDefault"] = 0

\* The list an instance got from default_factory, 0 when it has none.
DefaultList(id) ==
    IF id # 0 /\ ListField(DcClassOf(id)) \in dc_heap[id].dflt
    THEN dc_heap[id].attrs[ListField(DcClassOf(id))]
    ELSE 0

\* C10: every instance built without the list argument has a default list of
\* its own: the list holds exactly what was appended through that instance,
\* whatever was appended through the other one.
C10_SeparateDefaultLists ==
    /\ \A id \in {dc_p, dc_q} :
           DefaultList(id) # 0 => dc_heap[DefaultList(id)].items = dc_heap[id].own
    /\ (DefaultList(dc_p) # 0 /\ DefaultList(dc_q) # 0)
           => DefaultList(dc_p) # DefaultList(dc_q)

\* person10.list_values is [1] while person11.list_values is [].
C10_Witness ==
    /\ DefaultList(dc_p) # 0 /\ DefaultList(dc_q) # 0
    /\ dc_heap[dc_p].cls = dc_heap[dc_q].cls
    /\ dc_heap[DefaultList(dc_p)].items = <<1>>
    /\ dc_heap[DefaultList(dc_q)].items = <<>>
    /\ dc_last.op = "append"

\* Both variables hold instances of the class of the given name.
PairOf(cname) ==
    /\ dc_p # 0 /\ dc_q # 0
    /\ DcClassOf(dc_p).name = cname /\ DcClassOf(dc_q).name = cname

C12_CompareFalseIgnored ==
    (dc_last.op \in {"lt", "gt", "eq"} /\ PairOf("PersonOrderAge"))
        => LET a == dc_heap[dc_p].attrs
               b == dc_heap[dc_q].attrs IN
           /\ dc_last.outcome = "ok"
           /\ dc_last.result = CASE dc_last.op = "gt" -> a.age > b.age
                                  [] dc_last.op = "lt" -> a.age < b.age
                                  [] dc_last.op = "eq" -> a.age = b.age

\* PersonOrderAge('Dave', 45) > PersonOrderAge('Eve', 40) has been evaluated to
\* True.
C12_Witness ==
    /\ dc_last.op = "gt" /\ PairOf("PersonOrderAge")
    /\ dc_heap[dc_p].attrs.name = "Dave" /\ dc_heap[dc_p].attrs.age = 45
    /\ dc_heap[dc_q].attrs.name = "Eve" /\ dc_heap[dc_q].attrs.age = 40
    /\ dc_last.result = TRUE

\* C13: an assignment to a field of an instance of a dataclass declared with
\* frozen=True raises, and the fields of such an instance are always the ones
\* it was constructed with.
C13_FrozenRejectsAssignment ==
    /\ (dc_last.op = "setattr" /\ Classes[dc_last.cls].frozen)
           => dc_last.outcome = "FrozenInstanceError"
    /\ \A id \in {dc_p, dc_q} \ {0} : DcClassOf(id).frozen => AsBuilt(id)

\* person16.age = .. on a PersonFrozen has raised.
C13_Witness ==
    /\ dc_last.op = "setattr" /\ dc_last.outcome = "FrozenInstanceError"
    /\ dc_p # 0 /\ DcClassOf(dc_p).name = "PersonFrozen"
    /\ AsBuilt(dc_p)

\* Every field of the class is a parameter of its constructor.
AllInit(c) == \A i \in 1..Len(c.fields) : c.fields[i].init

PassedNonParameter(last) ==
    \E i \in 1..Len(last.call) :
        last.call[i].given /\ ~Classes[last.cls].fields[i].init

\* C15: a constructor call that passes a value for a field declared init=False
\* (is_adult of PersonPostInit) raises TypeError and creates no instance: the
\* variables and the objects are as before the call.
C15_InitFalseNotAParameter ==
    [][(dc_last'.op = "new" /\ PassedNonParameter(dc_last'))
           => /\ dc_last'.outcome = "TypeError"
              /\ UNCHANGED <<dc_heap, dc_p, dc_q>>]_vars

\* PersonPostInit('Eve', 25, 'dummy@abc.com', is_adult=False) has raised TypeError.
C15_Witness ==
    /\ dc_last.op = "new" /\ dc_last.outcome = "TypeError"
    /\ Classes[dc_last.cls].name = "PersonPostInit"
    /\ dc_last.call[2] = [given |-> TRUE, val |-> 25]
    /\ dc_last.call[4] = [given |-> TRUE, val |-> FALSE]

\* C16: every PersonPostInit there is was built with an age that is not
\* negative and with is_adult equal to (age >= 18), and a constructor call with
\* a negative age (and no argument that is no parameter) raises ValueError.
C16_PostInitInvariant ==
    /\ \A id \in {dc_p, dc_q} \ {0} :
           DcClassOf(id).name = "PersonPostInit"
               => /\ dc_heap[id].args[2] >= 0
                  /\ dc_heap[id].args[4] = (dc_heap[id].args[2] >= 18)
    /\ (/\ dc_last.op = "new" /\ Classes[dc_last.cls].name = "PersonPostInit"
        /\ ~PassedNonParameter(dc_last)
        /\ dc_last.call[2].val < 0)
           => dc_last.outcome = "ValueError"

\* PersonPostInit('Eve', -1) has raised ValueError while the other variable
\* holds a PersonPostInit built with age 17, which is no adult.
C16_Witness ==
    /\ dc_last.op = "new" /\ dc_last.outcome = "ValueError"
    /\ dc_last.call[2].val = -1
    /\ \E id \in {dc_p, dc_q} \ {0} :
           /\ DcClassOf(id).name = "PersonPostInit"
           /\ dc_heap[id].args[2] = 17
           /\ dc_heap[id].args[4] = FALSE
           /\ dc_heap[id].attrs.is_adult = FALSE

\* C17: the fields of Employee, which inherits from the dataclass PersonParent,
\* are the fields of PersonParent followed by its own: an Employee is built
\* from (name, age, employer), in that order.
C17_ParentFieldsFirst ==
    \A id \in {dc_p, dc_q} \ {0} :
        DcClassOf(id).name = "Employee"
            => /\ [i \in 1..Len(DcClassOf(id).fields) |-> DcClassOf(id).fields[i].name]
                      = <<"name", "age", "employer">>
               /\ dc_heap[id].args[1] \in Dom("name")
               /\ dc_heap[id].args[2] \in Dom("age")
               /\ dc_heap[id].args[3] \in Dom("employer")
               /\ AsBuilt(id) => dc_heap[id].args = <<dc_heap[id].attrs.name,
                                                      dc_heap[id].attrs.age,
                                                      dc_heap[id].attrs.employer>>

\* Employee('Eve', 40, 'ABC Corp') has been built.
C17_Witness ==
    /\ dc_last.op = "new" /\ dc_last.outcome = "ok"
    /\ dc_p # 0 /\ DcClassOf(dc_p).name = "Employee"
    /\ dc_last.call = <<[given |-> TRUE, val |-> "Eve"], [given |-> TRUE, val |-> 40],
                        [given |-> TRUE, val |-> "ABC Corp"]>>
    /\ dc_heap[dc_p].args = <<"Eve", 40, "ABC Corp">>

\* C27: is_adult of a PersonPostInit is set at construction only: an
\* assignment of a new age to an instance goes through whatever the age is,
\* negative included, and leaves is_adult as it was.
C27_IsAdultNotRecomputed ==
    [][(/\ dc_last'.op = "setattr"
        /\ Classes[dc_last'.cls].name = "PersonPostInit"
        /\ dc_last'.call[1] = "age")
           => /\ dc_last'.outcome = "ok"
              /\ dc_heap'[dc_p].attrs.age = dc_last'.call[2]
              /\ dc_heap'[dc_p].attrs.is_adult = dc_heap[dc_p].attrs.is_adult
              /\ dc_heap'[dc_p].attrs.name = dc_heap[dc_p].attrs.name
      ]_vars

\* A PersonPostInit built with age 25 has been assigned the age -1: it is
\* still an adult.
C27_Witness ==
    /\ dc_last.op = "setattr" /\ dc_last.outcome = "ok"
    /\ Classes[dc_last.cls].name = "PersonPostInit"
    /\ dc_last.call = <<"age", -1>>
    /\ dc_heap[dc_p].args[2] = 25
    /\ dc_heap[dc_p].attrs.age = -1
    /\ dc_heap[dc_p].attrs.is_adult = TRUE
    /\ dc_heap[dc_p].attrs.is_adult # (dc_heap[dc_p].attrs.age >= 18)

\* C18: on an instance of the MyClass whose descriptor_attribute is a
\* MyDescriptor, a read runs __get__ and gives the instance's _value, an
\* assignment runs __set__ and leaves the assigned value in _value, a del runs
\* __delete__ and leaves the instance without _value; and a read made after an
\* assignment of v with no del since gives v.
C18_MyDescriptorUsesValue ==
    (ds_last.op \in {"get", "set", "del"} /\ ds_last.attr = "descriptor_attribute") =>
        LET o == ds_obj[ds_last.var] IN
        /\ ds_last.op = "get" =>
              /\ ds_last.calls = <<"MyDescriptor.__get__">>
              /\ (ds_last.outcome = "ok") = ("_value" \in DOMAIN o.dict)
              /\ ds_last.outcome = "ok" => ds_last.value = o.dict["_value"]
              /\ "descriptor_attribute" \in DOMAIN o.log =>
                    /\ ds_last.outcome = "ok"
                    /\ ds_last.value = o.log["descriptor_attribute"]
        /\ ds_last.op = "set" =>
              /\ ds_last.calls = <<"MyDescriptor.__set__">>
              /\ ds_last.outcome = "ok"
              /\ "_value" \in DOMAIN o.dict
              /\ o.dict["_value"] = ds_last.value
        /\ ds_last.op = "del" =>
              /\ ds_last.calls = <<"MyDescriptor.__delete__">>
              /\ "_value" \notin DOMAIN o.dict

\* An instance built with 42 whose descriptor_attribute was then assigned 99 is
\* read, and the read gives 99.
C18_Witness ==
    /\ ds_last.op = "get"
    /\ ds_last.attr = "descriptor_attribute"
    /\ ds_last.outcome = "ok"
    /\ ds_last.value = 99
    /\ ds_obj[ds_last.var].log["_value"] = 42
    /\ "descriptor_attribute" \in DOMAIN ds_obj[ds_last.var].log

\* C19: an assignment to value1 or value2 of a value outside the min and max
\* of its ValidationDescriptor raises ValueError and leaves what the instance
\* stores as it was; an assignment of a value inside them goes through and the
\* instance then stores that value for the attribute.
C19_ValidationRejectsOutOfRange ==
    [][(ds_last'.op = "set" /\ ds_last'.attr \in {"value1", "value2"}) =>
        LET var == ds_last'.var
            attr == ds_last'.attr
            v == ds_last'.value
            desc == MyClass(2)[attr]
        IN  IF v < desc.min \/ v > desc.max
            THEN /\ ds_last'.outcome = "ValueError"
                 /\ ds_obj'[var].dict = ds_obj[var].dict
            ELSE /\ ds_last'.outcome = "ok"
                 /\ attr \in DOMAIN ds_obj'[var].dict
                 /\ ds_obj'[var].dict[attr] = v
                 /\ \A other \in (DOMAIN ds_obj[var].dict) \ {attr} :
                       /\ other \in DOMAIN ds_obj'[var].dict
                       /\ ds_obj'[var].dict[other] = ds_obj[var].dict[other]
      ]_vars

\* value1 holds 40 and the assignment of 101 to it has just raised ValueError.
C19_Witness ==
    /\ ds_last.op = "set"
    /\ ds_last.attr = "value1"
    /\ ds_last.value = 101
    /\ ds_last.outcome = "ValueError"
    /\ ds_obj[ds_last.var].dict["value1"] = 40

\* C20: a read of value1 or value2 gives the value last assigned to that
\* attribute of that instance by an assignment that went through, or the
\* default 0 when there was none, and what it gives is between 0 and 100.
C20_ReadsStayInRange ==
    (ds_last.op = "get" /\ ds_last.attr \in {"value1", "value2"}) =>
        LET o == ds_obj[ds_last.var] IN
        /\ ds_last.outcome = "ok"
        /\ ds_last.value = IF ds_last.attr \in DOMAIN o.log THEN o.log[ds_last.attr] ELSE 0
        /\ 0 <= ds_last.value
        /\ ds_last.value <= 100

\* value2 is read on an instance that has had an assignment rejected and whose
\* other attribute holds a different value.
C20_Witness ==
    /\ ds_last.op = "get"
    /\ ds_last.attr = "value2"
    /\ ds_last.value = 100
    /\ ds_obj[ds_last.var].rej
    /\ ds_obj[ds_last.var].log["value1"] = 0
    /\ "int_value1" \in DOMAIN ds_obj[ds_last.var].dict

\* C21: the assignment obj.int_value1 = 50 runs ValidationDescriptor.__set__.
\* MyClass has no descriptor of that name, so the assignment makes an entry
\* of the instance __dict__ and runs no method of a descriptor.
C21_IntValue1RunsSet ==
    (ds_last.op = "set" /\ ds_last.attr = "int_value1") =>
        "ValidationDescriptor.__set__" \in Range(ds_last.calls)

\* C22: the assignment obj.int_value1 = 50 leaves value1 and value2 as they
\* were: a read of either gives after it what it gave before it.
C22_IntValue1LeavesManaged ==
    [][(ds_last'.op = "set" /\ ds_last'.attr = "int_value1") =>
        \A name \in {"value1", "value2"} :
            object___getattribute__(MyClass(2), ds_obj'[ds_last'.var].dict, name).value
              = object___getattribute__(MyClass(2), ds_obj[ds_last'.var].dict, name).value
      ]_vars

\* obj = MyClass(40, 65) has been assigned int_value1 = 50 and still holds
\* 40 and 65.
C22_Witness ==
    /\ ds_last.op = "set"
    /\ ds_last.attr = "int_value1"
    /\ ds_last.value = 50
    /\ ds_last.outcome = "ok"
    /\ ds_obj[ds_last.var].dict["int_value1"] = 50
    /\ ds_obj[ds_last.var].dict["value1"] = 40
    /\ ds_obj[ds_last.var].dict["value2"] = 65

\* C28: once descriptor_attribute of an instance was deleted (the statement
\* before was a del of it, or the instance has no _value), a read or another
\* del of it raises AttributeError and changes nothing, while an assignment
\* goes through and a read then gives the assigned value.
C28_AfterDelete ==
    [][(/\ ds_last'.op \in {"get", "set", "del"}
        /\ ds_last'.attr = "descriptor_attribute"
        /\ \/ "_value" \notin DOMAIN ds_obj[ds_last'.var].dict
           \/ ds_last.op = "del" /\ ds_last.var = ds_last'.var)
           => /\ ds_last'.op \in {"get", "del"} =>
                    /\ ds_last'.outcome = "AttributeError"
                    /\ ds_obj' = ds_obj
              /\ ds_last'.op = "set" =>
                    /\ ds_last'.outcome = "ok"
                    /\ object___getattribute__(MyClass(1), ds_obj'[ds_last'.var].dict,
                                               "descriptor_attribute")
                         = [outcome |-> "ok", value |-> ds_last'.value,
                            dict |-> ds_obj'[ds_last'.var].dict,
                            calls |-> <<"MyDescriptor.__get__">>]
      ]_vars

\* del obj.descriptor_attribute, made a second time, has raised AttributeError.
C28_Witness ==
    /\ ds_last.op = "del"
    /\ ds_last.attr = "descriptor_attribute"
    /\ ds_last.outcome = "AttributeError"
    /\ "_value" \notin DOMAIN ds_obj[ds_last.var].dict
    /\ ds_obj[ds_last.var].log["_value"] = 42

====
